---- MODULE Spec2Model ----
(***************************************************************************)
(* pura: the compound resolver (src/pura/resolvers.py) and the PubChem     *)
(* adapter it consults (src/pura/services/pubchem.py).                     *)
(*                                                                         *)
(* One behaviour is one call of CompoundResolver.resolve.  The main        *)
(* coroutine (_resolve) and the per-input coroutines                       *)
(* (resolve_one_identifier) are asyncio coroutines: every action below is  *)
(* the code one coroutine runs between two of its suspension points        *)
(* (await service.resolve_compound, await asyncio.sleep, await f).         *)
(***************************************************************************)
EXTENDS Integers, Sequences, FiniteSets, TLC

\* ------------------------------------------------------------- bounds
MaxInputs == 3      \* longest input list of a whole resolve call
MaxConcurrent == 2  \* most tasks of one batch in a whole resolve call
MaxRetries == 3     \* largest n_retries handed to resolve_one_identifier
MaxAgreement == 3   \* largest agreement (quorum)
MaxServices == 3    \* longest list of services a resolver is constructed with
CallServices == 2   \* number of services in a whole resolve call
CallRetries == 2    \* n_retries in a whole resolve call
CallAgreement == 2  \* largest agreement in a whole resolve call
MaxLists == 3       \* longest list of answers handed to reduce_options directly
MaxQueries == 3     \* property queries followed within one PubChem.resolve_compound
MaxSuggestions == 2 \* largest autocomplete_limit of a PubChem adapter

\* ------------------------------------------------------ program constants
DefaultBatch == 100 \* resolvers.py:136

VARIABLES
    n_services,             \* len(CompoundResolver._services)
    silent,                 \* CompoundResolver.silent
    agreement,              \* resolve(agreement=...)
    n_retries,              \* resolve_one_identifier(n_retries=...)
    input_identifiers,      \* the input list: the identifier_type of each input
    output_identifier_type, \* the desired output kinds (a set)
    batch_size,             \* resolve(batch_size=...); 0 stands for None
    responses,              \* what the providers may answer to one request
    pc,                     \* _resolve: "start", "batch", "await", "done", "raised"
    exc,                    \* the exception _resolve ended with ("" if none)
    batch,                  \* index of the current batch
    n_batches,
    resolved_identifiers,   \* _resolve's result list, one entry per awaited task
    batch_results,          \* the list comprehension being built at line 166
    session,                \* the ClientSession of the batch: "none", "open", "closed"
    completed,              \* tasks finished and not yet awaited, in completion order
    tasks,                  \* input position -> state of its resolve_one_identifier
    reduce_call,            \* a call of reduce_options on its own: argument, result
    pubchem                 \* a call of PubChem.resolve_compound on its own

vars == <<n_services, silent, agreement, n_retries, input_identifiers, output_identifier_type,
          batch_size, responses, pc, exc, batch, n_batches, resolved_identifiers,
          batch_results, session, completed, tasks, reduce_call, pubchem>>

\* The calls made directly, outside a resolve call.
direct == <<reduce_call, pubchem>>

config == <<n_services, silent, agreement, n_retries, input_identifiers, output_identifier_type,
            batch_size, responses>>

Services == 1..n_services

\* ------------------------------------------------------------ identifiers
CompoundIdentifier(t, v) == [identifier_type |-> t, value |-> v]

\* Canonical form of a value: the SMILES spelling "a" canonicalises to "A".
Canonical(t, v) == IF t = "SMILES" /\ v = "a" THEN "A" ELSE v

standardize_identifier(id) ==
    CompoundIdentifier(id.identifier_type, Canonical(id.identifier_type, id.value))

Standardized(ids) == [x \in DOMAIN ids |-> standardize_identifier(ids[x])]

\* ---------------------------------------------------------------- PubChem
INPUT_IDENTIFIER_MAP ==
    {"SMILES", "INCHI", "IUPAC_NAME", "INCHI_KEY", "NAME", "PUBCHEM_CID"}

OUTPUT_IDENTIFIER_MAP ==
    {"SMILES", "INCHI", "IUPAC_NAME", "INCHI_KEY", "TITLE", "PUBCHEM_CID",
     "ISOMERIC_SMILES"}

Raise(e) == [ok |-> FALSE, exc |-> e, ids |-> <<>>]
Return(ids) == [ok |-> TRUE, exc |-> "", ids |-> ids]

SMILES(v) == CompoundIdentifier("SMILES", v)

Table(rows) == [kind |-> "table", code |-> "", rows |-> rows]
Fault(code) == [kind |-> "fault", code |-> code, rows |-> <<>>]
Transport(e) == [kind |-> "transport", code |-> e, rows |-> <<>>]

\* The names a query is made with: the input's value and a suggested one.
Names == {"asprin", "aspirin"}

\* What the autocomplete endpoint may answer with limit=n: a fault, or a
\* dictionary of at most n suggested names.
Suggestions(n) ==
    {Table(names) : names \in UNION {[1..m -> Names] : m \in 0..n}}
        \cup {Fault("PUGREST.NotFound"), Fault("PUGREST.ServerBusy")}

\* One HTTP request: the transport fails, or the provider answers a Fault
\* or a property table.
request(resp) ==
    IF resp.kind = "transport" THEN Raise(resp.code)
    ELSE IF resp.kind = "fault" THEN
        CASE resp.code = "PUGREST.BadRequest" -> Raise("HTTPBadRequest")
          [] resp.code = "PUGREST.NotFound" -> Raise("HTTPNotFound")
          [] resp.code = "PUGREST.NotAllowed" -> Raise("HTTPMethodNotAllowed")
          [] resp.code = "PUGREST.Timeout" -> Raise("HTTPGatewayTimeout")
          [] resp.code = "PUGREST.ServerBusy" -> Raise("HTTPServiceUnavailable")
          [] resp.code = "PUGREST.Unimplemented" -> Raise("HTTPNotImplemented")
          [] resp.code \in {"PUGREST.ServerError", "PUGREST.Unknown"} ->
                Raise("HTTPInternalServerError")
    ELSE Return(resp.rows)

get_properties_uncaught(resp) == request(resp)

get_properties(resp) ==
    LET r == request(resp)
    IN  IF ~r.ok /\ r.exc = "HTTPNotFound" THEN Return(<<>>) ELSE r

IsWanted(id) == id.identifier_type \in (output_identifier_type \cap OUTPUT_IDENTIFIER_MAP)

\* The two ValueErrors raised before any request is made.
ConfigError(input_kind) ==
    \/ input_kind \notin INPUT_IDENTIFIER_MAP
    \/ output_identifier_type \cap OUTPUT_IDENTIFIER_MAP = {}

\* PubChem.resolve_compound with autocomplete off: one property query.
resolve_compound(input_kind, resp) ==
    IF ConfigError(input_kind) THEN Raise("ValueError")
    ELSE LET r == get_properties(resp)
         IN  IF r.ok THEN Return(SelectSeq(r.ids, IsWanted)) ELSE r

\* The autocomplete endpoint: a missing dictionary is an empty suggestion list.
autocomplete(resp) ==
    LET r == request(resp)
    IN  IF ~r.ok /\ r.exc = "HTTPNotFound" THEN Return(<<>>) ELSE r

\* while not input_identifiers_queue.empty(): the next value is queried, or
\* the loop is over and output_identifiers is returned.
LoopHead(c) ==
    IF c.queue = <<>> THEN [c EXCEPT !.st = "returned"]
    ELSE [c EXCEPT !.st = "query", !.input_value = Head(c.queue),
                   !.queue = Tail(c.queue),
                   !.queries = Append(@, Head(c.queue))]

\* Lines 122-158: the checks of the arguments, then the first query.
PubChemCall ==
    /\ pc = "pubchem"
    /\ pubchem.st = "ready"
    /\ pubchem' = IF ConfigError(input_identifiers[1])
                  THEN [pubchem EXCEPT !.st = "raised", !.exc = "ValueError"]
                  ELSE LoopHead([pubchem EXCEPT !.queue = <<pubchem.input_value>>,
                                                !.autocomplete_tried = FALSE])
    /\ UNCHANGED <<config, pc, exc, batch, n_batches, resolved_identifiers,
                   batch_results, session, completed, tasks, reduce_call>>

\* Lines 159-186: await get_properties(...) ends; the rows of the wanted
\* kinds are kept; with none, autocomplete on and autocomplete_tried unset,
\* the autocomplete request is sent.
GetProperties ==
    /\ pc = "pubchem"
    /\ pubchem.st = "query"
    /\ Len(pubchem.queries) <= MaxQueries
    /\ \E resp \in responses :
          LET r == get_properties(resp)
              out == SelectSeq(r.ids, IsWanted)
              c == [pubchem EXCEPT !.output_identifiers = out]
          IN  pubchem' =
                  IF ~r.ok THEN [pubchem EXCEPT !.st = "raised", !.exc = r.exc]
                  ELSE IF Len(out) = 0 /\ c.autocomplete /\ ~c.autocomplete_tried
                  THEN [c EXCEPT !.st = "complete",
                                 !.completions = Append(@, c.input_value)]
                  ELSE LoopHead(c)
    /\ UNCHANGED <<config, pc, exc, batch, n_batches, resolved_identifiers,
                   batch_results, session, completed, tasks, reduce_call>>

\* Lines 187-190: await autocomplete(...) ends; the suggested names are
\* queued.
Autocomplete ==
    /\ pc = "pubchem"
    /\ pubchem.st = "complete"
    /\ Len(pubchem.queries) <= MaxQueries
    /\ \E resp \in Suggestions(pubchem.autocomplete_limit) :
          LET r == autocomplete(resp)
          IN  pubchem' =
                  IF ~r.ok THEN [pubchem EXCEPT !.st = "raised", !.exc = r.exc]
                  ELSE LoopHead([pubchem EXCEPT !.queue = @ \o r.ids])
    /\ UNCHANGED <<config, pc, exc, batch, n_batches, resolved_identifiers,
                   batch_results, session, completed, tasks, reduce_call>>

\* ---------------------------------------------------------- error classes
aiohttp_errors ==
    {"HTTPServiceUnavailable", "ClientConnectionError", "TimeoutError",
     "ServerDisconnectedError", "ContentTypeError"}

HTTPClientError ==
    {"HTTPBadRequest", "HTTPNotFound", "HTTPMethodNotAllowed"}

HTTPServerError ==
    {"HTTPServiceUnavailable", "HTTPGatewayTimeout", "HTTPNotImplemented",
     "HTTPInternalServerError"}

\* ------------------------------------------------------- reduce_options
IsNonEmpty(ids) == Len(ids) > 0

\* identifiers_list_new: the value lists of the non-empty answers.
identifiers_list_new(identifiers_list) == SelectSeq(identifiers_list, IsNonEmpty)

identifier_type_of_fixed(identifiers_list) == "SMILES"

\* identifier_type is assigned on every non-empty answer of the loop, so it
\* ends as the kind of the first identifier of the last non-empty answer.
identifier_type_of(identifiers_list) ==
    LET new == identifiers_list_new(identifiers_list)
    IN  new[Len(new)][1].identifier_type

identifiers_sets(identifiers_list) ==
    LET new == identifiers_list_new(identifiers_list)
    IN  [x \in DOMAIN new |-> {new[x][y].value : y \in DOMAIN new[x]}]

\* itertools.combinations(range(n), k): the increasing k-tuples of indices,
\* produced in lexicographic order.
combinations(n, k) ==
    {c \in [1..k -> 1..n] : \A p, q \in 1..k : p < q => c[p] < c[q]}

LexLess_last(c, d) ==
    \E p \in DOMAIN c : c[p] > d[p] /\ \A q \in DOMAIN c : q < p => c[q] = d[q]

LexLess(c, d) ==
    \E p \in DOMAIN c : c[p] < d[p] /\ \A q \in DOMAIN c : q < p => c[q] = d[q]

ComboIntersection_first(sets, combo) == sets[combo[1]]

ComboIntersection(sets, combo) ==
    {v \in sets[combo[1]] : \A p \in DOMAIN combo : v \in sets[combo[p]]}

intersection_shortcut(identifiers_list, k) ==
    IF k = 1
    THEN IF identifiers_list = <<>> THEN {}
         ELSE {identifiers_list[1][y].value : y \in DOMAIN identifiers_list[1]}
    ELSE LET sets == identifiers_sets(identifiers_list)
             good == {c \in combinations(Len(sets), k) : ComboIntersection(sets, c) # {}}
         IN  IF good = {} THEN {}
             ELSE ComboIntersection(sets,
                      CHOOSE c \in good : \A d \in good \ {c} : LexLess(c, d))

\* The loop over the combinations stops at the first non-empty intersection;
\* with none, intersection is left empty.
intersection(identifiers_list, k) ==
    LET sets == identifiers_sets(identifiers_list)
        good == {c \in combinations(Len(sets), k) : ComboIntersection(sets, c) # {}}
    IN  IF good = {} THEN {}
        ELSE ComboIntersection(sets,
                 CHOOSE c \in good : \A d \in good \ {c} : LexLess(c, d))

\* The orders in which a Python set can be iterated.
Orders(S) ==
    {s \in [1..Cardinality(S) -> S] : \A p, q \in DOMAIN s : p # q => s[p] # s[q]}

\* The lists reduce_options(identifiers_list, k) can return.
reduce_options(identifiers_list, k) ==
    LET vals == intersection(identifiers_list, k)
    IN  IF vals = {} THEN {<<>>}
        ELSE {[x \in DOMAIN s |->
                  CompoundIdentifier(identifier_type_of(identifiers_list), s[x])]
              : s \in Orders(vals)}

\* A call of reduce_options(identifiers_list, agreement) on its own.
ReduceOptions ==
    /\ pc = "reduce"
    /\ ~reduce_call.done
    /\ \E returned \in reduce_options(reduce_call.identifiers_list, agreement) :
          reduce_call' = [reduce_call EXCEPT !.returned = returned, !.done = TRUE]
    /\ UNCHANGED <<config, pc, exc, batch, n_batches, resolved_identifiers,
                   batch_results, session, completed, tasks, pubchem>>

\* --------------------------------------------- resolve_one_identifier
NotStarted ==
    [st |-> "pending", i |-> 1, j |-> 0, list |-> <<>>, agreement_count |-> 0,
     bound |-> FALSE, resolved_identifiers |-> <<>>, retNone |-> FALSE,
     exc |-> "", logged |-> "",
     calls |-> [s \in Services |-> 0],     \* resolve_compound calls per service
     sleeps |-> [s \in Services |-> <<>>], \* the asyncio.sleep arguments per service
     got |-> [s \in Services |-> <<>>],    \* the answer each service returned, if any
     last |-> [s \in Services |-> ""],     \* the provider's latest response per service
     order |-> <<>>]                       \* the services called, in the order of the calls

\* The coroutine runs up to its first request to the first service.
NewTask == [NotStarted EXCEPT !.st = "calling", !.calls[1] = 1, !.order = <<1>>]

Settled(r) == r.st \in {"returned", "raised"}

HasNextAttempt_extra(j) == j + 1 <= n_retries

HasNextAttempt_none(j) == FALSE

\* range(n_retries): is there an attempt after attempt j?
HasNextAttempt(j) == j + 1 < n_retries

Backoff_linear(j) == 2 * j

\* asyncio.sleep(2**j)
Backoff(j) == 2 ^ j

QuorumBreak_late(count) == count > agreement

\* if agreement_count >= agreement: break
QuorumBreak(count) == count >= agreement

\* Lines 219-227: the code after the loop over the services.
Finish(r) ==
    IF r.agreement_count < agreement
    THEN IF silent
         THEN [r EXCEPT !.st = "returned", !.retNone = TRUE,
                        !.logged = "Not sufficient agreeement"]
         ELSE [r EXCEPT !.st = "raised", !.exc = "TypeError"]
    ELSE [r EXCEPT !.st = "returned"]

\* Lines 208-217: the agreement check after service r.i, then either the
\* first request to the next service or the end of the loop.
CheckAgreement(r, reduced) ==
    LET r1 == IF r.i > 1 /\ Len(r.list) > 0
              THEN [r EXCEPT !.resolved_identifiers = reduced, !.bound = TRUE,
                             !.agreement_count = @ + 1]
              ELSE IF Len(r.list) > 0
              THEN [r EXCEPT !.agreement_count = @ + 1]
              ELSE r
    IN  IF QuorumBreak(r1.agreement_count) \/ r1.i = n_services
        THEN Finish(r1)
        ELSE [r1 EXCEPT !.st = "calling", !.i = @ + 1, !.j = 0,
                        !.calls[r1.i + 1] = @ + 1,
                        !.order = Append(@, r1.i + 1)]

Reductions(r) ==
    IF r.i > 1 /\ Len(r.list) > 0 THEN reduce_options(r.list, agreement) ELSE {<<>>}

\* except aiohttp_errors / except (HTTPClientError, HTTPServerError) / uncaught
OnError(r, e) ==
    IF e \in aiohttp_errors
    THEN [r EXCEPT !.st = "sleeping", !.sleeps[r.i] = Append(@, Backoff(r.j))]
    ELSE IF e \in HTTPClientError \cup HTTPServerError
    THEN IF silent
         THEN [r EXCEPT !.st = "returned", !.retNone = TRUE, !.logged = e]
         ELSE [r EXCEPT !.st = "raised", !.exc = e]
    ELSE [r EXCEPT !.st = "raised", !.exc = e]

\* What the provider answered: a fault code, a transport error or a table.
ResponseName(resp) == IF resp.kind = "table" THEN "table" ELSE resp.code

Settle(t, r) ==
    /\ tasks' = [tasks EXCEPT ![t] = r]
    /\ completed' = IF Settled(r) THEN Append(completed, t) ELSE completed

\* The tasks of a batch are scheduled on the event loop by as_completed:
\* they run while _resolve awaits them and, as nothing cancels them, also
\* after _resolve itself was cancelled.
TasksRun == pc \in {"await", "cancelled"}

\* await service.resolve_compound(...) ends: it returned or raised.
Attempt(t) ==
    /\ TasksRun
    /\ tasks[t].st = "calling"
    /\ \E resp \in responses :
          LET r == IF ConfigError(input_identifiers[t]) THEN tasks[t]
                   ELSE [tasks[t] EXCEPT !.last[tasks[t].i] = ResponseName(resp)]
              out == resolve_compound(input_identifiers[t], resp)
          IN  IF out.ok
              THEN LET ids == Standardized(out.ids)
                       r1 == [r EXCEPT !.resolved_identifiers = ids, !.bound = TRUE,
                                       !.list = Append(@, ids),
                                       !.got[r.i] = <<ids>>]
                   IN  \E reduced \in Reductions(r1) :
                          Settle(t, CheckAgreement(r1, reduced))
              ELSE Settle(t, OnError(r, out.exc))
    /\ UNCHANGED <<config, pc, exc, batch, n_batches, resolved_identifiers,
                   batch_results, session, direct>>

\* await asyncio.sleep(2**j) ends: the next attempt, or the retries are spent.
Wake(t) ==
    /\ TasksRun
    /\ tasks[t].st = "sleeping"
    /\ LET r == tasks[t]
       IN  IF HasNextAttempt(r.j)
           THEN Settle(t, [r EXCEPT !.st = "calling", !.j = @ + 1,
                                    !.calls[r.i] = @ + 1,
                                    !.order = Append(@, r.i)])
           ELSE \E reduced \in Reductions(r) :
                   Settle(t, CheckAgreement(r, reduced))
    /\ UNCHANGED <<config, pc, exc, batch, n_batches, resolved_identifiers,
                   batch_results, session, direct>>

\* ------------------------------------------------------------ _resolve
Min(a, b) == IF a < b THEN a ELSE b

BatchOf(b, size) ==
    {t \in 1..Len(input_identifiers) : b * size < t /\ t <= (b + 1) * size}

\* What awaiting a returned task gives: None, or its list.
ResultOf(r) == [none |-> r.retNone, ids |-> IF r.retNone THEN <<>> ELSE r.resolved_identifiers]

\* The tasks of batch b are created and scheduled.
WithBatch(b, size) ==
    [t \in DOMAIN tasks |-> IF t \in BatchOf(b, size) THEN NewTask ELSE tasks[t]]

NBatches_floor(n_identifiers, size) == n_identifiers \div size

\* Lines 137-138: n_batches = n_identifiers // batch_size, one more when
\* n_identifiers % batch_size != 0.
NBatches(n_identifiers, size) ==
    (n_identifiers \div size) + (IF n_identifiers % size = 0 THEN 0 ELSE 1)

\* Lines 134-147: the batch arithmetic and, if there is one, the first batch.
ResolveStart ==
    /\ pc = "start"
    /\ LET n_identifiers == Len(input_identifiers)
           size == IF batch_size = 0
                   THEN (IF n_identifiers >= DefaultBatch THEN DefaultBatch
                         ELSE n_identifiers)
                   ELSE batch_size
       IN  IF size = 0
           THEN /\ pc' = "raised"
                /\ exc' = "ZeroDivisionError"
                /\ UNCHANGED <<batch_size, n_batches, session, tasks>>
           ELSE /\ batch_size' = size
                /\ n_batches' = NBatches(n_identifiers, size)
                /\ exc' = ""
                /\ IF n_batches' = 0
                   THEN pc' = "done" /\ UNCHANGED <<session, tasks>>
                   ELSE pc' = "await" /\ session' = "open"
                        /\ tasks' = WithBatch(0, size)
    /\ UNCHANGED <<n_services, silent, agreement, n_retries, input_identifiers,
                   output_identifier_type, responses, batch, resolved_identifiers,
                   batch_results, completed, direct>>

\* Line 166: await the next task to complete; after the last one of the
\* batch the session is closed and the next batch, if any, begins.
Collect ==
    /\ pc = "await"
    /\ completed # <<>>
    /\ LET t == Head(completed)
           r == tasks[t]
       IN  IF r.st = "raised"
           THEN /\ pc' = "raised"
                /\ exc' = r.exc
                /\ session' = "closed"
                /\ completed' = Tail(completed)
                /\ UNCHANGED <<batch, resolved_identifiers, batch_results, tasks>>
           ELSE LET got == Append(batch_results, ResultOf(r))
                IN  IF Len(got) < Cardinality(BatchOf(batch, batch_size))
                    THEN /\ batch_results' = got
                         /\ completed' = Tail(completed)
                         /\ UNCHANGED <<pc, exc, batch, resolved_identifiers,
                                        session, tasks>>
                    ELSE /\ resolved_identifiers' = resolved_identifiers \o got
                         /\ batch_results' = <<>>
                         /\ completed' = <<>>
                         /\ batch' = batch + 1
                         /\ exc' = exc
                         /\ IF batch + 1 < n_batches
                            THEN pc' = "await" /\ session' = "open"
                                 /\ tasks' = WithBatch(batch + 1, batch_size)
                            ELSE pc' = "done" /\ session' = "closed"
                                 /\ tasks' = tasks
    /\ UNCHANGED <<n_services, silent, agreement, n_retries, input_identifiers,
                   output_identifier_type, batch_size, responses, n_batches, direct>>

\* The caller cancels the resolve call while _resolve is suspended at line
\* 166: CancelledError is raised there, leaves the async with block, which
\* closes the session, and ends _resolve.
Cancel ==
    /\ pc = "await"
    /\ pc' = "cancelled"
    /\ exc' = "CancelledError"
    /\ session' = "closed"
    /\ UNCHANGED <<config, batch, n_batches, resolved_identifiers, batch_results,
                   completed, tasks, direct>>

\* ----------------------------------------------------------- providers
FaultCodes ==
    {"PUGREST.BadRequest", "PUGREST.NotFound", "PUGREST.NotAllowed",
     "PUGREST.Timeout", "PUGREST.ServerBusy", "PUGREST.Unimplemented",
     "PUGREST.ServerError", "PUGREST.Unknown"}

AllTables ==
    {Table(<<SMILES("A")>>), Table(<<SMILES("B")>>),
     Table(<<SMILES("A"), SMILES("B")>>), Table(<<SMILES("a")>>),
     Table(<<SMILES("A"), CompoundIdentifier("INCHI", "A")>>)}

AllResponses ==
    AllTables \cup {Fault(c) : c \in FaultCodes} \cup {Transport("ClientConnectionError")}

FewResponses ==
    {Table(<<SMILES("A")>>), Fault("PUGREST.NotFound"),
     Fault("PUGREST.ServerBusy"), Fault("PUGREST.BadRequest")}

InputKinds == {"NAME", "CAS_NUMBER"}

InputLists(n) == UNION {[1..m -> InputKinds] : m \in 0..n}

\* No call of reduce_options or of PubChem.resolve_compound on its own.
NoReduceCall == [identifiers_list |-> <<>>, returned |-> <<>>, done |-> FALSE]

NoPubChemCall ==
    [st |-> "none",                  \* "ready", "query", "complete", "returned", "raised"
     autocomplete |-> FALSE,         \* PubChem.autocomplete
     autocomplete_limit |-> 1,       \* PubChem.autocomplete_limit
     queue |-> <<>>,                 \* input_identifiers_queue
     input_value |-> "",
     output_identifiers |-> <<>>,
     autocomplete_tried |-> FALSE,
     exc |-> "",
     queries |-> <<>>,               \* the values get_properties was called with
     completions |-> <<>>]           \* the values autocomplete was called with

\* The state of _resolve before its first statement.
NotResolving ==
    /\ exc = ""
    /\ batch = 0
    /\ n_batches = 0
    /\ resolved_identifiers = <<>>
    /\ batch_results = <<>>
    /\ session = "none"
    /\ completed = <<>>
    /\ tasks = [t \in DOMAIN input_identifiers |-> NotStarted]

Common ==
    /\ silent \in BOOLEAN
    /\ reduce_call = NoReduceCall
    /\ pubchem = NoPubChemCall
    /\ pc = "start"
    /\ exc = ""
    /\ batch = 0
    /\ n_batches = 0
    /\ resolved_identifiers = <<>>
    /\ batch_results = <<>>
    /\ session = "none"
    /\ completed = <<>>
    /\ tasks = [t \in DOMAIN input_identifiers |-> NotStarted]

\* The most tasks in flight at once with n inputs and batch_size b.
Concurrency(n, b) == Min(n, IF b = 0 THEN n ELSE b)

\* A whole resolve call over up to MaxInputs inputs.
Init ==
    /\ n_services = CallServices
    /\ agreement \in 1..CallAgreement
    /\ n_retries = CallRetries
    /\ input_identifiers \in InputLists(MaxInputs)
    /\ output_identifier_type = {"SMILES"}
    /\ batch_size \in 0..MaxInputs
    /\ Concurrency(Len(input_identifiers), batch_size) <= MaxConcurrent
    /\ responses = FewResponses
    /\ Common

\* One input, every provider answer.
InitOne ==
    /\ n_services \in 1..MaxServices
    /\ agreement \in 1..MaxAgreement
    /\ n_retries \in 1..MaxRetries
    /\ input_identifiers \in [1..1 -> InputKinds]
    /\ output_identifier_type \in {{"SMILES"}, {"CAS_NUMBER"}}
    /\ batch_size = 0
    /\ responses = AllResponses
    /\ Common

Next ==
    \/ ResolveStart
    \/ \E t \in DOMAIN tasks : Attempt(t)
    \/ \E t \in DOMAIN tasks : Wake(t)
    \/ Collect

Spec == Init /\ [][Next]_vars

\* Property tables with rows of several kinds, in either order of the
\* requested representations.
KindResponses ==
    {Table(<<SMILES("A")>>),
     Table(<<CompoundIdentifier("ISOMERIC_SMILES", "A")>>),
     Table(<<SMILES("A"), CompoundIdentifier("ISOMERIC_SMILES", "A")>>),
     Table(<<CompoundIdentifier("ISOMERIC_SMILES", "A"), SMILES("B")>>),
     Table(<<SMILES("B"), CompoundIdentifier("INCHI", "B")>>),
     Table(<<SMILES("A"), SMILES("A")>>),
     Fault("PUGREST.NotFound"), Fault("PUGREST.ServerBusy")}

\* One input, one or two desired output kinds.
InitKinds ==
    /\ n_services \in 1..MaxServices
    /\ agreement \in 1..MaxAgreement
    /\ n_retries = 1
    /\ input_identifiers = <<"NAME">>
    /\ output_identifier_type \in
           {{"SMILES"}, {"ISOMERIC_SMILES"}, {"SMILES", "ISOMERIC_SMILES"}}
    /\ batch_size = 0
    /\ responses = KindResponses
    /\ Common

SpecKinds == InitKinds /\ [][Next]_vars

\* PubChem.resolve_compound called on its own, autocomplete on or off.
InitPubChem ==
    /\ \E a \in BOOLEAN, n \in 1..MaxSuggestions :
          pubchem = [NoPubChemCall EXCEPT !.st = "ready", !.autocomplete = a,
                                          !.autocomplete_limit = n,
                                          !.input_value = "asprin"]
    /\ input_identifiers \in [1..1 -> InputKinds]
    /\ output_identifier_type \in {{"SMILES"}, {"CAS_NUMBER"}}
    /\ responses = FewResponses
    /\ reduce_call = NoReduceCall
    /\ n_services = 1
    /\ silent = FALSE
    /\ agreement = 1
    /\ n_retries = 1
    /\ batch_size = 0
    /\ pc = "pubchem"
    /\ NotResolving

NextPubChem == PubChemCall \/ GetProperties \/ Autocomplete

SpecPubChem == InitPubChem /\ [][NextPubChem]_vars

\* The answers of one service handed to reduce_options.
Candidates ==
    {<<>>, <<SMILES("A")>>, <<SMILES("B")>>, <<SMILES("A"), SMILES("B")>>,
     <<SMILES("A"), SMILES("A")>>, <<CompoundIdentifier("ISOMERIC_SMILES", "A")>>}

CandidateLists(n) == UNION {[1..m -> Candidates] : m \in 0..n}

\* reduce_options called on its own with any list of answers and any quorum.
InitReduce ==
    /\ agreement \in 1..MaxAgreement
    /\ \E L \in CandidateLists(MaxLists) :
          reduce_call = [NoReduceCall EXCEPT !.identifiers_list = L]
    /\ pubchem = NoPubChemCall
    /\ n_services = 1
    /\ silent = FALSE
    /\ n_retries = 1
    /\ input_identifiers = <<>>
    /\ output_identifier_type = {"SMILES", "ISOMERIC_SMILES"}
    /\ batch_size = 0
    /\ responses = {}
    /\ pc = "reduce"
    /\ NotResolving

NextReduce == ReduceOptions

SpecReduce == InitReduce /\ [][NextReduce]_vars

SpecOne == InitOne /\ [][Next]_vars

\* A whole resolve call with one service and one attempt per input, every
\* input list of up to MaxInputs inputs and every batch size.
InitBatch ==
    /\ n_services = 1
    /\ agreement = 1
    /\ n_retries = 1
    /\ input_identifiers \in InputLists(MaxInputs)
    /\ output_identifier_type = {"SMILES"}
    /\ batch_size \in 0..MaxInputs
    /\ responses = {Table(<<SMILES("A")>>), Fault("PUGREST.ServerBusy")}
    /\ Common

SpecBatch == InitBatch /\ [][Next]_vars

\* A resolve call of one batch that its caller may cancel.
InitCancel ==
    /\ n_services = CallServices
    /\ agreement \in 1..CallAgreement
    /\ n_retries = CallRetries
    /\ input_identifiers \in InputLists(MaxConcurrent)
    /\ output_identifier_type = {"SMILES"}
    /\ batch_size = 0
    /\ responses = FewResponses
    /\ Common

NextCancel == Next \/ Cancel

SpecCancel == InitCancel /\ [][NextCancel]_vars

\* ================================================================ claims
ValuesOf(ids) == {ids[y].value : y \in DOMAIN ids}

\* No agreement-sized subset of the collected answers shares a value.
NoQuorum(r) == intersection(r.list, agreement) = {}

\* The services whose answer holds the value v.
Support(r, v) == {s \in Services : r.got[s] # <<>> /\ v \in ValuesOf(r.got[s][1])}

RECURSIVE SumSeq(_)
SumSeq(q) == IF q = <<>> THEN 0 ELSE Head(q) + SumSeq(Tail(q))

\* The answers of the services that answered, in declaration order.
RECURSIVE AnswersUpTo(_, _)
AnswersUpTo(r, s) == IF s = 0 THEN <<>> ELSE AnswersUpTo(r, s - 1) \o r.got[s]

ClientFaults == {"PUGREST.BadRequest", "PUGREST.NotAllowed", "PUGREST.Unimplemented"}

\* C1: when resolve returns, entry x of the returned list is the result of
\* the task of input x, whatever the order in which the tasks completed.
C1_OutputOrderIsInputOrder ==
    pc = "done" =>
        /\ Len(resolved_identifiers) = Len(input_identifiers)
        /\ \A x \in DOMAIN input_identifiers :
              resolved_identifiers[x] = ResultOf(tasks[x])

\* C2: in strict mode a resolution that ends without quorum (no
\* agreement-sized subset of the answers shares a value) ends by raising; it
\* never returns normally.
C2_StrictRaisesWithoutQuorum ==
    ~silent =>
        \A t \in DOMAIN tasks :
            (Settled(tasks[t]) /\ NoQuorum(tasks[t])) => tasks[t].st = "raised"

\* C3: in silent mode, when resolve returns, an input whose resolution did not
\* reach quorum has an empty list (not None) at its position of the output.
C3_SilentNoQuorumGivesEmptyList ==
    (silent /\ pc = "done") =>
        \A x \in DOMAIN input_identifiers :
            NoQuorum(tasks[x]) =>
                /\ x \in DOMAIN resolved_identifiers
                /\ resolved_identifiers[x] = [none |-> FALSE, ids |-> <<>>]

\* C4: every value of a list returned by resolve_one_identifier occurs in the
\* answers of at least agreement distinct services.
C4_ResultHasQuorumSupport ==
    \A t \in DOMAIN tasks :
        (tasks[t].st = "returned" /\ ~tasks[t].retNone) =>
            \A y \in DOMAIN tasks[t].resolved_identifiers :
                Cardinality(Support(tasks[t], tasks[t].resolved_identifiers[y].value))
                    >= agreement

\* A quorum of 2 met on the value "A", while one of the services also
\* answered "B".
C4_Witness ==
    \E t \in DOMAIN tasks :
        /\ agreement = 2
        /\ tasks[t].st = "returned" /\ ~tasks[t].retNone
        /\ tasks[t].resolved_identifiers = <<SMILES("A")>>
        /\ \E s \in Services :
              tasks[t].got[s] # <<>> /\ "B" \in ValuesOf(tasks[t].got[s][1])

\* Quorum is reached: the counter is at agreement, or agreement answers
\* share a value.
QuorumReached(r) ==
    r.agreement_count >= agreement \/ intersection(r.list, agreement) # {}

\* C5: once quorum is reached for an input its resolution is over, and no
\* service declared after the one that completed the quorum is ever called.
C5_ShortCircuit ==
    \A t \in DOMAIN tasks :
        QuorumReached(tasks[t]) =>
            /\ Settled(tasks[t])
            /\ \A s \in Services :
                  s > tasks[t].i => tasks[t].calls[s] = 0 /\ tasks[t].got[s] = <<>>

\* Quorum 2, three services, the first two answer the same value: the third
\* is never called.
C5_Witness ==
    \E t \in DOMAIN tasks :
        /\ agreement = 2 /\ n_services = 3
        /\ tasks[t].st = "returned"
        /\ tasks[t].got[1] = << <<SMILES("A")>> >>
        /\ tasks[t].got[2] = << <<SMILES("A")>> >>
        /\ tasks[t].resolved_identifiers = <<SMILES("A")>>
        /\ tasks[t].calls[3] = 0

C7_BackoffThenSuccess ==
    \A t \in DOMAIN tasks :
        \A s \in Services :
            tasks[t].got[s] # <<>> =>
                LET m == Len(tasks[t].sleeps[s])
                IN  /\ tasks[t].calls[s] = m + 1
                    /\ m < n_retries
                    /\ \A j \in 0..(m - 1) : tasks[t].sleeps[s][j + 1] = 2 ^ j
                    /\ SumSeq(tasks[t].sleeps[s]) = 2 ^ m - 1
                    /\ tasks[t].list = AnswersUpTo(tasks[t], tasks[t].i)

\* Two 503s then an answer with n_retries = 3: three calls, sleeps 1 then 2.
C7_Witness ==
    \E t \in DOMAIN tasks :
        \E s \in Services :
            /\ n_retries = 3
            /\ tasks[t].got[s] = << <<SMILES("A")>> >>
            /\ tasks[t].calls[s] = 3
            /\ tasks[t].sleeps[s] = <<1, 2>>
            /\ tasks[t].list # <<>>

\* C8: a client error of service s is not retried and ends the resolution at
\* s; in strict mode it is raised, in silent mode it is logged and the
\* input's result is an empty list.
C8_ClientErrorNotRetried ==
    \A t \in DOMAIN tasks :
        \A s \in Services :
            tasks[t].last[s] \in ClientFaults =>
                /\ tasks[t].calls[s] = Len(tasks[t].sleeps[s]) + 1
                /\ Settled(tasks[t]) /\ tasks[t].i = s
                /\ \A s2 \in Services : s2 > s => tasks[t].calls[s2] = 0
                /\ ~silent => tasks[t].st = "raised"
                               /\ tasks[t].exc \in HTTPClientError \cup HTTPServerError
                /\ silent => /\ tasks[t].st = "returned"
                             /\ tasks[t].logged \in HTTPClientError \cup HTTPServerError
                             /\ ResultOf(tasks[t]) = [none |-> FALSE, ids |-> <<>>]

\* C9: in silent mode a configuration error of a service (unsupported input
\* kind, no supported output kind) does not abort the resolve call.
C9_SilentConfigErrorDoesNotAbort ==
    silent => ~(pc = "raised" /\ exc = "ValueError")

\* C10: a not-found answer of service s is recorded as that service's empty
\* answer, s is not attempted again, and no not-found error is raised or
\* logged.
C10_NotFoundIsEmptyAnswer ==
    \A t \in DOMAIN tasks :
        \A s \in Services :
            tasks[t].last[s] = "PUGREST.NotFound" =>
                /\ tasks[t].got[s] = << <<>> >>
                /\ tasks[t].calls[s] = Len(tasks[t].sleeps[s]) + 1
                /\ tasks[t].list = AnswersUpTo(tasks[t], tasks[t].i)
                /\ tasks[t].exc # "HTTPNotFound"
                /\ tasks[t].logged # "HTTPNotFound"

\* The first service answers not-found at its first attempt, in strict mode,
\* and the resolution goes on to the second service.
C10_Witness ==
    \E t \in DOMAIN tasks :
        /\ ~silent /\ agreement = 2 /\ n_services >= 2
        /\ tasks[t].last[1] = "PUGREST.NotFound"
        /\ tasks[t].calls[1] = 1
        /\ tasks[t].list[1] = <<>>
        /\ tasks[t].calls[2] >= 1

\* The PubChem fault codes the specification lists as transient.
TransientFaults ==
    {"PUGREST.Timeout", "PUGREST.ServerBusy", "PUGREST.ServerError",
     "PUGREST.Unknown"}

\* C11: a transient PubChem fault (Timeout, ServerBusy, ServerError, Unknown)
\* of service s is retried: the failed attempt is followed by a backoff
\* sleep, the fault is not raised in strict mode, and it does not end the
\* input's resolution with a logged error in silent mode.
C11_TransientFaultsAreRetried ==
    \A t \in DOMAIN tasks :
        \A s \in Services :
            tasks[t].last[s] \in TransientFaults =>
                LET m == Len(tasks[t].sleeps[s])
                IN  /\ \/ m = tasks[t].calls[s]
                       \/ /\ m = tasks[t].calls[s] - 1
                          /\ tasks[t].st = "calling" /\ tasks[t].i = s
                    /\ \A j \in 0..(m - 1) : tasks[t].sleeps[s][j + 1] = 2 ^ j
                    /\ tasks[t].calls[s] <= n_retries
                    /\ (Settled(tasks[t]) /\ tasks[t].i = s) =>
                          /\ tasks[t].exc \notin HTTPClientError \cup HTTPServerError
                          /\ tasks[t].logged \notin HTTPClientError \cup HTTPServerError

\* The batch, counted from 0, that input t belongs to with batches of size B.
BatchIndex(t, B) == (t - 1) \div B

\* Once the batch arithmetic is done for n >= 1 inputs: n_batches is
\* ceil(n/B); input t runs in batch (t-1) div B, so that batch j covers the
\* inputs j*B .. min(n,(j+1)*B)-1 counted from 0; the tasks of the batches
\* before the current one have all settled and no task of a later batch has
\* started; a call that is through has run n_batches batches.
C12_Batches ==
    LET n == Len(input_identifiers)
        B == batch_size
    IN  (n >= 1 /\ pc # "start") =>
            /\ B >= 1
            /\ n_batches * B >= n /\ (n_batches - 1) * B < n
            /\ batch <= n_batches
            /\ pc = "await" => batch < n_batches
            /\ pc = "done" => batch = n_batches /\ Len(resolved_identifiers) = n
            /\ \A t \in 1..n :
                  /\ BatchIndex(t, B) < batch => Settled(tasks[t])
                  /\ BatchIndex(t, B) > batch => tasks[t].st = "pending"
                  /\ (BatchIndex(t, B) = batch /\ pc = "await") =>
                        tasks[t].st # "pending"

\* An unspecified batch size becomes min(100, n).
C12_DefaultSize ==
    (pc = "start" /\ batch_size = 0 /\ Len(input_identifiers) >= 1) =>
        batch_size' = Min(DefaultBatch, Len(input_identifiers))

\* C12: for n >= 1 inputs and batch size B (min(100, n) when unspecified)
\* exactly ceil(n/B) batches are run, batch j covers the inputs
\* j*B .. min(n,(j+1)*B)-1, and no task of batch i+1 starts before every
\* task of batch i has settled.
C12_Batching == []C12_Batches /\ [][C12_DefaultSize]_vars

\* Three inputs in batches of two: two batches were run, the second with the
\* third input alone.
C12_Witness ==
    /\ Len(input_identifiers) = 3 /\ batch_size = 2
    /\ pc = "done" /\ n_batches = 2 /\ batch = 2
    /\ Len(resolved_identifiers) = 3

\* The positions of the non-empty lists of L.
NonEmptyLists(L) == {x \in DOMAIN L : Len(L[x]) > 0}

\* The size-k subsets of the non-empty lists of L.
Subsets(L, k) == {S \in SUBSET NonEmptyLists(L) : Cardinality(S) = k}

\* The values every list of S holds.
CommonValues(L, S) ==
    {v \in UNION {ValuesOf(L[x]) : x \in S} : \A x \in S : v \in ValuesOf(L[x])}

SetMin(S) == CHOOSE x \in S : \A y \in S : x <= y

\* S comes before T in the lexicographic order of the index subsets.
Before(S, T) == S # T /\ SetMin((S \ T) \cup (T \ S)) \in S

\* The size-k subsets whose lists share a value.
Agreeing(L, k) == {S \in Subsets(L, k) : CommonValues(L, S) # {}}

\* C13: reduce_options(L, k) returns exactly the values shared by the first
\* size-k subset, in lexicographic order of the indices of the non-empty
\* lists of L, whose lists share a value; it returns the empty list when
\* there is no such subset (fewer than k non-empty lists included); for
\* k = 1 it returns the contents of the first non-empty list.
C13_ReduceOptions ==
    reduce_call.done =>
        LET L == reduce_call.identifiers_list
            k == agreement
            returned == reduce_call.returned
        IN  /\ Agreeing(L, k) # {} =>
                  \E S \in Agreeing(L, k) :
                      /\ \A T \in Agreeing(L, k) \ {S} : Before(S, T)
                      /\ ValuesOf(returned) = CommonValues(L, S)
                      /\ Len(returned) = Cardinality(CommonValues(L, S))
            /\ Agreeing(L, k) = {} => returned = <<>>
            /\ Cardinality(NonEmptyLists(L)) < k => returned = <<>>
            /\ (k = 1 /\ NonEmptyLists(L) # {}) =>
                  ValuesOf(returned) = ValuesOf(L[SetMin(NonEmptyLists(L))])

\* Quorum 2 over the answers {A,B}, {B}, {A}: the first agreeing pair is the
\* first two lists, on B, although the first and the third agree on A.
C13_Witness ==
    /\ reduce_call.done /\ agreement = 2
    /\ reduce_call.identifiers_list
           = << <<SMILES("A"), SMILES("B")>>, <<SMILES("B")>>, <<SMILES("A")>> >>
    /\ reduce_call.returned = <<SMILES("B")>>

\* C14: quorum monotonicity: for k >= 2, when reduce_options(L, k) is
\* non-empty, reduce_options(L, k - 1) is non-empty too.
C14_QuorumMonotone ==
    (reduce_call.done /\ agreement >= 2 /\ reduce_call.returned # <<>>) =>
        \A lower \in reduce_options(reduce_call.identifiers_list, agreement - 1) :
            lower # <<>>

\* Three lists agree on A (quorum 3) after an empty first answer.
C14_Witness ==
    /\ reduce_call.done /\ agreement = 3
    /\ Len(reduce_call.identifiers_list) = 3
    /\ reduce_call.returned = <<SMILES("A")>>
    /\ \E x \in DOMAIN reduce_call.identifiers_list :
          ValuesOf(reduce_call.identifiers_list[x]) = {"A", "B"}

\* C20: the identifiers reduce_options returns all carry the kind of the
\* identifiers of the first non-empty list of its input, whatever the kinds
\* in the later non-empty lists.
C20_KindOfFirstNonEmptyList ==
    (reduce_call.done /\ reduce_call.returned # <<>>) =>
        LET L == reduce_call.identifiers_list
            first == L[SetMin(NonEmptyLists(L))]
        IN  \A y \in DOMAIN reduce_call.returned :
                reduce_call.returned[y].identifier_type = first[1].identifier_type

KindsOf(ids) == {ids[y].identifier_type : y \in DOMAIN ids}

\* Every answer a service returned for the input has kinds within the
\* desired output kinds.
AnswersWithinKinds(r) ==
    \A s \in Services :
        \A x \in DOMAIN r.got[s] : KindsOf(r.got[s][x]) \subseteq output_identifier_type

\* C15: kind closure: when the answers of the services have kinds within
\* the desired output kinds, every identifier of the result returned for
\* the input has a kind among the desired output kinds.
C15_KindClosure ==
    /\ \A t \in DOMAIN tasks :
          (tasks[t].st = "returned" /\ AnswersWithinKinds(tasks[t])) =>
              KindsOf(ResultOf(tasks[t]).ids) \subseteq output_identifier_type
    /\ pc = "done" =>
          \A x \in DOMAIN resolved_identifiers :
              AnswersWithinKinds(tasks[x]) =>
                  KindsOf(resolved_identifiers[x].ids) \subseteq output_identifier_type

\* Two desired kinds, quorum 2: the first service answered in one kind, the
\* second in the other, and the result is the value they share.
C15_Witness ==
    /\ pc = "done" /\ agreement = 2 /\ n_services >= 2
    /\ output_identifier_type = {"SMILES", "ISOMERIC_SMILES"}
    /\ tasks[1].got[1] = << <<SMILES("A")>> >>
    /\ tasks[1].got[2] # <<>>
    /\ KindsOf(tasks[1].got[2][1]) = {"ISOMERIC_SMILES"}
    /\ ValuesOf(resolved_identifiers[1].ids) = {"A"}

\* C16: with autocomplete enabled, one PubChem.resolve_compound call
\* invokes the autocomplete endpoint at most once, whatever the property
\* queries for the original value and for the suggested names return.
C16_AutocompleteAtMostOnce ==
    pubchem.autocomplete => Len(pubchem.completions) <= 1

\* Once the resolve call is cancelled no task calls a service again: not a
\* task whose request was in flight, not a task woken from a retry sleep.
C17_NoCallAfterCancel ==
    pc = "cancelled" =>
        \A t \in DOMAIN tasks :
            \A s \in Services : tasks'[t].calls[s] = tasks[t].calls[s]

\* C17: after a caller-initiated cancellation of a resolve call with tasks
\* in flight, no per-input task issues a new service request, and a task
\* suspended in a retry sleep ends without another attempt.
C17_CancellationStopsTasks == [][C17_NoCallAfterCancel]_vars

\* C18: the loop over the services is left before the last declared service
\* only when agreement_count >= agreement and the latest reduced list is
\* non-empty; with the counter at quorum and an empty reduced list the next
\* declared service is still consulted.
C18_EarlyStopNeedsNonEmptyAgreement ==
    \A t \in DOMAIN tasks :
        LET r == tasks[t]
        IN  /\ (r.st = "returned" /\ ~r.retNone /\ r.i < n_services) =>
                  /\ r.agreement_count >= agreement
                  /\ r.resolved_identifiers # <<>>
            /\ (r.agreement_count >= agreement /\ r.resolved_identifiers = <<>>
                   /\ r.i < n_services /\ r.exc = "" /\ r.logged = "") =>
                  ~Settled(r)

\* Service s failed transiently on every one of its n_retries attempts.
Exhausted(r, s) ==
    /\ r.calls[s] = n_retries /\ Len(r.sleeps[s]) = n_retries
    /\ r.got[s] = <<>>
    /\ (r.i > s \/ Settled(r))

\* Service s returned an empty list on its first attempt.
EmptyAtFirstAttempt(r, s) == r.calls[s] = 1 /\ r.got[s] = << <<>> >>

Consulted(r, s) == r.calls[s] > 0

\* Every service other than s that both resolutions consulted behaved the
\* same way in both.
SameElsewhere(r1, r2, s) ==
    \A s2 \in Services \ {s} :
        (Consulted(r1, s2) /\ Consulted(r2, s2)) =>
            /\ r1.got[s2] = r2.got[s2]
            /\ r1.sleeps[s2] = r2.sleeps[s2]
            /\ r1.last[s2] = r2.last[s2]

\* The outcome of a resolution: counter, services consulted after s,
\* returned result or raised failure.
SameOutcome(r1, r2, s) ==
    /\ r1.agreement_count = r2.agreement_count
    /\ \A s2 \in Services : s2 > s => (Consulted(r1, s2) <=> Consulted(r2, s2))
    /\ r1.st = r2.st /\ r1.exc = r2.exc
    /\ ResultOf(r1) = ResultOf(r2)

\* C19: a service that exhausts its n_retries attempts with transient
\* failures leaves the input's resolution with the same outcome (agreement
\* counter, services consulted afterwards, result or failure) as if it had
\* returned an empty list on its first attempt, whatever its position.
C19_ExhaustedIsEmptyAnswer ==
    \A t1, t2 \in DOMAIN tasks :
        \A s \in Services :
            (/\ input_identifiers[t1] = input_identifiers[t2]
             /\ Settled(tasks[t1]) /\ Settled(tasks[t2])
             /\ Exhausted(tasks[t1], s)
             /\ EmptyAtFirstAttempt(tasks[t2], s)
             /\ SameElsewhere(tasks[t1], tasks[t2], s)) =>
                SameOutcome(tasks[t1], tasks[t2], s)

\* C21: the session of a batch is closed only after every task of that
\* batch has settled: no task is awaiting a service or sleeping between two
\* attempts once the session has been closed, a strict-mode abort included.
C21_SessionClosedAfterTasksSettled ==
    session = "closed" =>
        \A t \in DOMAIN tasks : tasks[t].st \in {"pending", "returned", "raised"}

\* C22: every result list returned for an input is deduplicated: no two of
\* its identifiers have the same value, for every quorum, also when the
\* result is the answer of the first service alone.
C22_ResultIsDeduplicated ==
    \A t \in DOMAIN tasks :
        tasks[t].st = "returned" =>
            LET ids == ResultOf(tasks[t]).ids
            IN  \A x, y \in DOMAIN ids : x # y => ids[x].value # ids[y].value

\* Service s is done with: it returned an answer or spent its n_retries
\* attempts.
DoneWith(r, s) ==
    \/ r.got[s] # <<>>
    \/ r.calls[s] = n_retries /\ Len(r.sleeps[s]) = n_retries

\* C23: within one task the services are called in declaration order and
\* one at a time: the first call starts with the first service, service
\* s + 1 is first called only after service s returned an answer or spent
\* its retries, and no service is called again once a later one was called.
C23_ServicesInDeclarationOrder ==
    \A t \in DOMAIN tasks :
        LET r == tasks[t]
            o == r.order
        IN  /\ \A s \in Services :
                  Cardinality({p \in DOMAIN o : o[p] = s}) = r.calls[s]
            /\ o # <<>> => o[1] = 1
            /\ \A p \in DOMAIN o :
                  p > 1 => o[p] = o[p - 1] \/ o[p] = o[p - 1] + 1
            /\ \A s \in Services :
                  (s > 1 /\ r.calls[s] > 0) => DoneWith(r, s - 1)
            /\ r.st = "calling" => o[Len(o)] = r.i

\* Three services, two attempts each: the first spent both attempts, the
\* second answered at its first, then the third was called.
C23_Witness ==
    \E t \in DOMAIN tasks :
        /\ n_services = 3 /\ n_retries = 2
        /\ tasks[t].order = <<1, 1, 2, 3>>
        /\ tasks[t].got[1] = <<>> /\ tasks[t].got[2] # <<>>

\* C24: a silent-mode resolve call over n >= 0 inputs (the empty list with
\* an unspecified batch size included) and any batch size B >= 1 never
\* raises, and returns n entries, the entries of each batch added before
\* those of the next batch.
C24_SilentCallCompletes ==
    silent =>
        /\ pc # "raised"
        /\ pc = "done" => Len(resolved_identifiers) = Len(input_identifiers)
        /\ pc = "await" =>
              Len(resolved_identifiers) = Min(Len(input_identifiers), batch * batch_size)

\* The requests one PubChem.resolve_compound call has sent.
Requests(c) == Len(c.queries) + Len(c.completions)

\* C25: PubChem.resolve_compound with autocomplete on ends after a bounded
\* number of requests whatever the endpoints answer: the query for the
\* original value, one autocomplete request, and one query per suggested
\* name (at most autocomplete_limit of them).
C25_BoundedRequests ==
    pubchem.autocomplete => Requests(pubchem) <= 2 + pubchem.autocomplete_limit

====
